---- MODULE Spec2Model ----
(***************************************************************************)
(* log_explorer: the FilterField selector (src/src/filter_field.rs), the   *)
(* App state with its query/pagination logic (src/src/app.rs) and the key  *)
(* dispatch of the event loop (src/src/main.rs).                           *)
(*                                                                         *)
(* A Rust String is a sequence of one-character strings; all indices keep  *)
(* the source's 0-based values (element i of a Vec v is v[i + 1]).         *)
(***************************************************************************)
EXTENDS Integers, Sequences, FiniteSets, TLC

\* ------------------------------------------------------------------------
\* Bounds of the model
\* ------------------------------------------------------------------------
\* longest candidate list handed to set_items by the FilterField harness
MaxItems == 2
\* longest filter_text typed into the stand-alone FilterField
MaxText == 2

\* ------------------------------------------------------------------------
\* Strings
\* ------------------------------------------------------------------------
UpperAlpha ==
  <<"A","B","C","D","E","F","G","H","I","J","K","L","M",
    "N","O","P","Q","R","S","T","U","V","W","X","Y","Z">>

LowerAlpha ==
  <<"a","b","c","d","e","f","g","h","i","j","k","l","m",
    "n","o","p","q","r","s","t","u","v","w","x","y","z">>

\* char::to_lowercase on the ASCII range
to_lowercase_char(c) ==
  IF \E i \in 1..Len(UpperAlpha) : UpperAlpha[i] = c
  THEN LowerAlpha[CHOOSE i \in 1..Len(UpperAlpha) : UpperAlpha[i] = c]
  ELSE c

\* str::to_lowercase
to_lowercase(s) == [i \in 1..Len(s) |-> to_lowercase_char(s[i])]

\* str::contains(&str): needle occurs in hay as a contiguous substring
contains(hay, needle) ==
  \E off \in 0..(Len(hay) - Len(needle)) :
    SubSeq(hay, off + 1, off + Len(needle)) = needle

Min(a, b) == IF a <= b THEN a ELSE b

\* usize::saturating_sub(1)
saturating_sub1(n) == IF n = 0 THEN 0 ELSE n - 1

\* Option<T>: None is the empty set, Some(x) the set of x alone
None == {}

Some(x) == {x}

\* Option::unwrap
unwrap(o) == CHOOSE x \in o : TRUE

\* ------------------------------------------------------------------------
\* FilterField (filter_field.rs)
\* ------------------------------------------------------------------------
\* FilterField::new
new ==
  [ items            |-> <<>>,
    selected_index   |-> 0,
    filter_text      |-> <<>>,
    filtered_indices |-> <<>>,
    cursor           |-> 0 ]

\* mutant of refilter_matches: the item is not lowercased
refilter_matches_case_sensitive(query, item) ==
  query = <<>> \/ contains(item, query)

\* the closure of refilter's .filter(): does item match the lowercased query
refilter_matches(query, item) ==
  query = <<>> \/ contains(to_lowercase(item), query)

\* items.iter().enumerate().filter(..).map(|(i, _)| i).collect(), 0-based
RECURSIVE matching_indices(_, _, _)
matching_indices(items, query, i) ==
  IF i >= Len(items) THEN <<>>
  ELSE IF refilter_matches(query, items[i + 1])
       THEN <<i>> \o matching_indices(items, query, i + 1)
       ELSE matching_indices(items, query, i + 1)

\* mutant of refilter: the cursor goes back to the first match
refilter_resets_cursor(f) ==
  [f EXCEPT !.filtered_indices =
              matching_indices(f.items, to_lowercase(f.filter_text), 0),
            !.cursor = 0]

\* mutant of refilter: the cursor is not clamped to the new subset
refilter_no_clamp(f) ==
  [f EXCEPT !.filtered_indices =
              matching_indices(f.items, to_lowercase(f.filter_text), 0)]

\* FilterField::refilter
refilter(f) ==
  LET query == to_lowercase(f.filter_text)
      fi    == matching_indices(f.items, query, 0)
  IN  [f EXCEPT !.filtered_indices = fi,
                !.cursor = IF fi = <<>> THEN 0
                           ELSE Min(f.cursor, Len(fi) - 1)]

\* mutant of set_items: the stale filter text is cleared with the old items
set_items_clears_text(f, items) ==
  refilter([f EXCEPT !.items = items, !.selected_index = 0,
                     !.filter_text = <<>>])

\* FilterField::set_items
set_items(f, items) ==
  refilter([f EXCEPT !.items = items, !.selected_index = 0])

\* items.iter().position(|item| item == value): first 0-based index or None
position(seq, value) ==
  IF \E i \in 1..Len(seq) : seq[i] = value
  THEN Some((CHOOSE i \in 1..Len(seq) :
                seq[i] = value /\ \A j \in 1..(i - 1) : seq[j] # value) - 1)
  ELSE None

\* mutant of select_value: a miss falls back to the first item
select_value_or_first(f, value) ==
  LET idx == position(f.items, value)
  IN  [f EXCEPT !.selected_index = IF idx # None THEN unwrap(idx) ELSE 0]

\* FilterField::select_value
select_value(f, value) ==
  LET idx == position(f.items, value)
  IN  IF idx # None THEN [f EXCEPT !.selected_index = unwrap(idx)] ELSE f

\* FilterField::selected_value
selected_value(f) ==
  IF f.selected_index < Len(f.items)
  THEN Some(f.items[f.selected_index + 1])
  ELSE None

\* mutant of open: the cursor starts on the first item
open_cursor_on_first(f) ==
  [refilter([f EXCEPT !.filter_text = <<>>]) EXCEPT !.cursor = 0]

\* FilterField::open
open(f) ==
  LET g   == refilter([f EXCEPT !.filter_text = <<>>])
      pos == position(g.filtered_indices, g.selected_index)
  IN  [g EXCEPT !.cursor = IF pos # None THEN unwrap(pos) ELSE 0]

\* mutant of confirm: with nothing highlighted the first item is committed
confirm_or_first(f) ==
  IF f.cursor < Len(f.filtered_indices)
  THEN [f EXCEPT !.selected_index = f.filtered_indices[f.cursor + 1]]
  ELSE [f EXCEPT !.selected_index = 0]

\* mutant of confirm: the cursor is taken as an index into items
confirm_cursor_as_index(f) ==
  IF f.cursor < Len(f.filtered_indices)
  THEN [f EXCEPT !.selected_index = f.cursor]
  ELSE f

\* FilterField::confirm
confirm(f) ==
  IF f.cursor < Len(f.filtered_indices)
  THEN [f EXCEPT !.selected_index = f.filtered_indices[f.cursor + 1]]
  ELSE f

\* mutant of type_char: typing resets the committed selection as set_items does
type_char_resets_selection(f, c) ==
  refilter([f EXCEPT !.filter_text = Append(f.filter_text, c),
                     !.selected_index = 0])

\* FilterField::type_char
type_char(f, c) ==
  refilter([f EXCEPT !.filter_text = Append(f.filter_text, c)])

\* FilterField::backspace (String::pop on an empty string does nothing)
backspace(f) ==
  refilter([f EXCEPT !.filter_text =
              IF f.filter_text = <<>> THEN <<>>
              ELSE SubSeq(f.filter_text, 1, Len(f.filter_text) - 1)])

\* mutant of next: the cursor wraps around to the first match
next_wraps(f) ==
  IF f.filtered_indices # <<>>
  THEN [f EXCEPT !.cursor = (f.cursor + 1) % Len(f.filtered_indices)]
  ELSE f

\* FilterField::next
next(f) ==
  IF f.filtered_indices # <<>>
  THEN [f EXCEPT !.cursor = Min(f.cursor + 1, Len(f.filtered_indices) - 1)]
  ELSE f

\* FilterField::previous
previous(f) == [f EXCEPT !.cursor = saturating_sub1(f.cursor)]

\* FilterField::filter_text
filter_text(f) == f.filter_text

\* FilterField::filtered_items
filtered_items(f) ==
  [k \in 1..Len(f.filtered_indices) |-> f.items[f.filtered_indices[k] + 1]]

\* FilterField::cursor
cursor(f) == f.cursor

\* ------------------------------------------------------------------------
\* String literals of app.rs, opensearch.rs and main.rs
\* ------------------------------------------------------------------------
\* const ALL
ALL == <<"A","L","L">>

S_production == <<"p","r","o","d","u","c","t","i","o","n">>

S_api == <<"a","p","i">>

S_ACTIVE_PROFILE_IS_UNDEFINED ==
  <<"A","C","T","I","V","E","_","P","R","O","F","I","L","E","_",
    "I","S","_","U","N","D","E","F","I","N","E","D">>

S_APPLICATION_NAME_IS_UNDEFINED ==
  <<"A","P","P","L","I","C","A","T","I","O","N","_","N","A","M","E","_",
    "I","S","_","U","N","D","E","F","I","N","E","D">>

S_ERROR == <<"E","R","R","O","R">>

S_Each_word == <<"E","a","c","h"," ","w","o","r","d">>

S_Exact == <<"E","x","a","c","t">>

S_5m == <<"5","m">>

S_50 == <<"5","0">>

S_now == <<"n","o","w","-">>

\* the time-range tokens of load_filters, in order
TIME_RANGES ==
  << <<"1","m">>, <<"5","m">>, <<"1","5","m">>, <<"3","0","m">>, <<"1","h">>,
     <<"3","h">>, <<"6","h">>, <<"1","2","h">>, <<"2","4","h">>, <<"3","d">>,
     <<"7","d">> >>

\* the page sizes of load_filters, in order
LIMITS ==
  << <<"5","0">>, <<"1","0","0">>, <<"2","0","0">>, <<"5","0","0">>,
     <<"1","0","0","0">> >>

\* pub const CONTEXT_MENU_OPTIONS
CONTEXT_MENU_OPTIONS == <<"Copy to clipboard", "Open in editor">>

\* ------------------------------------------------------------------------
\* Bounds of the App model
\* ------------------------------------------------------------------------
\* how many of TIME_RANGES / LIMITS the candidate lists keep (a prefix)
NTimeRanges == 1
NLimits == 1
\* most characters held at once in search_text and all filter_texts together
MaxTyped == 1
\* most total hits held by the stand-alone App
MaxTotalHits == 101
\* most records in one page returned by the backend
MaxLogs == 2
\* the backend reports total hits of 0 or 50 * k + 1, k in 1..MaxHitBlocks
MaxHitBlocks == 1

\* enum Pane (app.rs)
Pane ==
  {"Profile", "Application", "Severity", "TimeRange", "Limit", "Search",
   "SearchMode", "Logs", "LogContext"}

FilterPanes == {"Profile", "Application", "Severity", "TimeRange", "Limit", "SearchMode"}

\* ------------------------------------------------------------------------
\* status messages: the format string's kind and its numeric arguments
\* (the label of application/environment/severity is left out)
\* ------------------------------------------------------------------------
StLoadingFilters == <<"Loading filters...">>
StFiltersLoaded(nenv, napp) == <<"{} environments, {} applications", nenv, napp>>
StErrorLoadingFilters == <<"Error loading filters: {}">>
StNoEnvironment == <<"No environment selected">>
StFetchingPage(p) == <<"Fetching page {} from {}...", p>>
StLoaded(n) == <<"Loaded {} logs from {}", n>>
StError == <<"Error: {}">>
StFetchingLogs == <<"Fetching logs...">>
StCopied == <<"Copied to clipboard">>
StClipboardError == <<"Clipboard error: {}">>
StEditor == <<"open_in_editor message">>

\* ------------------------------------------------------------------------
\* App (app.rs)
\* ------------------------------------------------------------------------
\* App::new
App_new ==
  [ focused            |-> "Logs",
    profile_filter     |-> new,
    app_filter         |-> new,
    severity_filter    |-> new,
    time_filter        |-> new,
    limit_filter       |-> new,
    search_text        |-> <<>>,
    search_mode_filter |-> set_items(new, <<S_Each_word, S_Exact>>),
    logs               |-> <<>>,
    log_index          |-> 0,
    total_hits         |-> 0,
    page               |-> 1,
    context_cursor     |-> 0,
    status             |-> StLoadingFilters ]

\* App::selected_env
selected_env(a) == selected_value(a.profile_filter)

\* mutant of filter_not_ALL: the sentinel is passed on as a value
filter_keeps_ALL(o) == o

\* Option::filter(|v| *v != ALL)
filter_not_ALL(o) == {v \in o : v # ALL}

\* App::selected_app
selected_app(a) == filter_not_ALL(selected_value(a.app_filter))

\* App::selected_severity
selected_severity(a) == filter_not_ALL(selected_value(a.severity_filter))

\* App::selected_time_range
selected_time_range(a) ==
  LET v == selected_value(a.time_filter)
  IN  IF v # None /\ \E i \in 1..Len(TIME_RANGES) : TIME_RANGES[i] = unwrap(v)
      THEN S_now \o unwrap(v)
      ELSE S_now \o S_5m

Digits == <<"0","1","2","3","4","5","6","7","8","9">>

is_digit(c) == \E d \in 1..Len(Digits) : Digits[d] = c

digit_value(c) == (CHOOSE d \in 1..Len(Digits) : Digits[d] = c) - 1

RECURSIVE digits_value(_)
digits_value(s) ==
  IF s = <<>> THEN 0
  ELSE 10 * digits_value(SubSeq(s, 1, Len(s) - 1)) + digit_value(s[Len(s)])

\* str::parse::<i64>().ok() for unsigned decimal text
parse_i64(s) ==
  IF s # <<>> /\ \A i \in 1..Len(s) : is_digit(s[i])
  THEN Some(digits_value(s))
  ELSE None

\* App::selected_limit
selected_limit(a) ==
  LET v == selected_value(a.limit_filter)
      n == IF v = None THEN None ELSE parse_i64(unwrap(v))
  IN  IF n = None THEN 100 ELSE unwrap(n)

\* App::search_exact
search_exact(a) == selected_value(a.search_mode_filter) = Some(S_Exact)

\* mutant of div_ceil: the quotient is rounded down
div_floor(n, d) == n \div d

\* u64::div_ceil
div_ceil(n, d) == (n + d - 1) \div d

Max(x, y) == IF x >= y THEN x ELSE y

\* App::total_pages
total_pages(a) ==
  LET limit == selected_limit(a)
  IN  IF limit = 0 THEN 1 ELSE Max(div_ceil(a.total_hits, limit), 1)

Unreachable == "unreachable!"

\* mutant of active_filter_mut: Search borrows the search-mode field
active_filter_mut_lenient(a) ==
  CASE a.focused = "Profile"    -> "profile_filter"
    [] a.focused = "Application" -> "app_filter"
    [] a.focused = "Severity"   -> "severity_filter"
    [] a.focused = "TimeRange"  -> "time_filter"
    [] a.focused = "Limit"      -> "limit_filter"
    [] a.focused = "SearchMode" -> "search_mode_filter"
    [] a.focused = "Search"     -> "search_mode_filter"
    [] OTHER                    -> Unreachable

\* App::active_filter_mut: the field it borrows, or the unreachable!() panic
active_filter_mut(a) ==
  CASE a.focused = "Profile"    -> "profile_filter"
    [] a.focused = "Application" -> "app_filter"
    [] a.focused = "Severity"   -> "severity_filter"
    [] a.focused = "TimeRange"  -> "time_filter"
    [] a.focused = "Limit"      -> "limit_filter"
    [] a.focused = "SearchMode" -> "search_mode_filter"
    [] OTHER                    -> Unreachable

\* the Vec filter of load_filters: drop one placeholder value, keep the order
RECURSIVE without(_, _)
without(seq, drop) ==
  IF seq = <<>> THEN <<>>
  ELSE IF Head(seq) = drop THEN without(Tail(seq), drop)
       ELSE <<Head(seq)>> \o without(Tail(seq), drop)

\* App::load_filters, Ok arm
load_filters_ok(a, filters) ==
  LET environments == without(filters.environments, S_ACTIVE_PROFILE_IS_UNDEFINED)
      applications == <<ALL>> \o without(filters.applications, S_APPLICATION_NAME_IS_UNDEFINED)
      severities   == <<ALL>> \o filters.severities
      time_ranges  == SubSeq(TIME_RANGES, 1, Min(NTimeRanges, Len(TIME_RANGES)))
      limits       == SubSeq(LIMITS, 1, Min(NLimits, Len(LIMITS)))
  IN  [a EXCEPT
         !.status = StFiltersLoaded(Len(filters.environments), Len(filters.applications)),
         !.profile_filter  = select_value(set_items(@, environments), S_production),
         !.app_filter      = set_items(@, applications),
         !.severity_filter = set_items(@, severities),
         !.time_filter     = select_value(set_items(@, time_ranges), S_5m),
         !.limit_filter    = select_value(set_items(@, limits), S_50)]

\* App::load_filters, Err arm
load_filters_err(a) == [a EXCEPT !.status = StErrorLoadingFilters]

\* App::fetch_page up to the await: the state it leaves
fetch_page_begin(a, p) ==
  IF selected_env(a) = None
  THEN [a EXCEPT !.status = StNoEnvironment]
  ELSE [a EXCEPT !.status = StFetchingPage(p)]

\* mutant of fetch_page_call: the offset counts pages from 0
fetch_page_call_offset_from_page(a, p) ==
  IF selected_env(a) = None
  THEN None
  ELSE LET limit == selected_limit(a)
       IN  Some([ page         |-> p,
                  application  |-> selected_app(a),
                  profile      |-> unwrap(selected_env(a)),
                  severity     |-> selected_severity(a),
                  time_range   |-> selected_time_range(a),
                  search       |-> IF a.search_text = <<>> THEN None
                                   ELSE Some(a.search_text),
                  search_exact |-> search_exact(a),
                  size         |-> limit,
                  from         |-> p * limit ])

\* mutant of fetch_page_call: no early return for a missing environment
fetch_page_call_without_env_check(a, p) ==
  LET limit == selected_limit(a)
  IN  Some([ page         |-> p,
             application  |-> selected_app(a),
             profile      |-> selected_env(a),
             severity     |-> selected_severity(a),
             time_range   |-> selected_time_range(a),
             search       |-> IF a.search_text = <<>> THEN None
                              ELSE Some(a.search_text),
             search_exact |-> search_exact(a),
             size         |-> limit,
             from         |-> (p - 1) * limit ])

\* App::fetch_page up to the await: the call to opensearch::fetch_logs it
\* suspends on (with the page it will store), or None when it returns early
fetch_page_call(a, p) ==
  IF selected_env(a) = None
  THEN None
  ELSE LET limit == selected_limit(a)
       IN  Some([ page         |-> p,
                  application  |-> selected_app(a),
                  profile      |-> unwrap(selected_env(a)),
                  severity     |-> selected_severity(a),
                  time_range   |-> selected_time_range(a),
                  search       |-> IF a.search_text = <<>> THEN None
                                   ELSE Some(a.search_text),
                  search_exact |-> search_exact(a),
                  size         |-> limit,
                  from         |-> (p - 1) * limit ])

\* opensearch::fetch_logs: the search body it sends for a call
search_body(call) ==
  [ must |-> << <<"match", "profiles", call.profile>>,
                <<"range", "@timestamp", call.time_range>> >>
             \o (IF call.application # None
                 THEN << <<"match", "application", unwrap(call.application)>> >>
                 ELSE <<>>)
             \o (IF call.severity # None
                 THEN << <<"match", "severity", unwrap(call.severity)>> >>
                 ELSE <<>>)
             \o (IF call.search # None
                 THEN IF call.search_exact
                      THEN << <<"match_phrase", "message", unwrap(call.search)>> >>
                      ELSE << <<"query_string", "message",
                                <<"*">> \o unwrap(call.search) \o <<"*">> >> >>
                 ELSE <<>>),
    from |-> call.from,
    size |-> call.size ]

\* the part of a call's search body that selects the records: its clauses and
\* its page size, the offset left out
query_of(call) ==
  [ must |-> search_body(call).must,
    size |-> search_body(call).size ]

\* mutant of fetch_page_ok: the focus is left where it was
fetch_page_ok_keeps_focus(a, p, result) ==
  [a EXCEPT !.status     = StLoaded(Len(result.logs)),
            !.total_hits = result.total,
            !.page       = p,
            !.logs       = result.logs,
            !.log_index  = 0]

\* App::fetch_page, Ok(result) arm
fetch_page_ok(a, p, result) ==
  [a EXCEPT !.status     = StLoaded(Len(result.logs)),
            !.total_hits = result.total,
            !.page       = p,
            !.logs       = result.logs,
            !.log_index  = 0,
            !.focused    = "Logs"]

\* mutant of fetch_page_err: a failed fetch falls back to the first page
fetch_page_err_resets_page(a) == [a EXCEPT !.status = StError, !.page = 1]

\* mutant of fetch_page_err: a failed fetch gives the focus back to Logs
fetch_page_err_focuses_logs(a) == [a EXCEPT !.status = StError, !.focused = "Logs"]

\* App::fetch_page, Err(e) arm
fetch_page_err(a) == [a EXCEPT !.status = StError]

\* App::fetch_logs: the page it fetches
fetch_logs == 1

\* mutant of next_page: no guard on the last page
next_page_unguarded(a) == Some(a.page + 1)

\* App::next_page: the page it fetches, or None when it does nothing
next_page(a) == IF a.page < total_pages(a) THEN Some(a.page + 1) ELSE None

\* mutant of prev_page: no guard on the first page
prev_page_unguarded(a) == Some(a.page - 1)

\* App::prev_page: the page it fetches, or None when it does nothing
prev_page(a) == IF a.page > 1 THEN Some(a.page - 1) ELSE None

\* mutant of scroll_down: the index is not clamped to the last record
scroll_down_no_clamp(a) ==
  IF a.logs # <<>> THEN [a EXCEPT !.log_index = a.log_index + 1] ELSE a

\* App::scroll_down
scroll_down(a) ==
  IF a.logs # <<>>
  THEN [a EXCEPT !.log_index = Min(a.log_index + 1, Len(a.logs) - 1)]
  ELSE a

\* App::scroll_up
scroll_up(a) == [a EXCEPT !.log_index = saturating_sub1(a.log_index)]

\* ------------------------------------------------------------------------
\* main.rs: the key dispatch of run()
\* ------------------------------------------------------------------------
\* the pane a hotkey opens from the Logs pane (main.rs 274-317)
logs_hotkey_pane(c) ==
  CASE c = "P" -> "Profile"
    [] c = "A" -> "Application"
    [] c = "S" -> "Severity"
    [] c = "T" -> "TimeRange"
    [] c = "N" -> "Limit"
    [] c = "M" -> "SearchMode"

\* the pane a hotkey opens from a filter pane (main.rs 402-423)
filter_hotkey_pane(c) ==
  CASE c = "P" -> "Profile"
    [] c = "A" -> "Application"
    [] c = "S" -> "Severity"
    [] c = "T" -> "TimeRange"
    [] c = "M" -> "SearchMode"

\* the FilterField a hotkey arm opens before it sets focused
pane_filter(p) ==
  CASE p = "Profile"    -> "profile_filter"
    [] p = "Application" -> "app_filter"
    [] p = "Severity"   -> "severity_filter"
    [] p = "TimeRange"  -> "time_filter"
    [] p = "Limit"      -> "limit_filter"
    [] p = "SearchMode" -> "search_mode_filter"

\* a hotkey arm: app.<field>.open(); app.focused = Pane::<pane>
hotkey_open(a, p) == [a EXCEPT ![pane_filter(p)] = open(@), !.focused = p]

\* characters held in search_text and in every filter_text
total_typed(a) ==
  Len(a.search_text) + Len(a.profile_filter.filter_text)
  + Len(a.app_filter.filter_text) + Len(a.severity_filter.filter_text)
  + Len(a.time_filter.filter_text) + Len(a.limit_filter.filter_text)
  + Len(a.search_mode_filter.filter_text)

\* ------------------------------------------------------------------------
\* Inputs
\* ------------------------------------------------------------------------
\* values and characters handed to the stand-alone FilterField
ItemValues == { <<"A","b">>, <<"b","a">>, <<"b">> }

ItemLists == UNION { [1..n -> ItemValues] : n \in 0..MaxItems }

Alphabet == {"a", "A", "b"}

\* The keys pressed are Down, Up, Right, Left, Enter, Esc, Backspace and the
\* characters below.  Left out: 'q' (run returns), 'E' (the page goes to the
\* editor, status only), the aliases j/k/l/h of the arrows in the Logs pane,
\* keys a pane ignores, and 'F': main.rs opens app.search_fields_filter and
\* Pane::SearchFields with it, which app.rs declares neither in App nor in Pane.

\* KeyCode::Char(c) keys with an arm that opens a filter, per pane
LogsHotkeys == {"P", "A", "S", "T", "N", "M"}

FilterHotkeys == {"P", "A", "S", "T", "M"}

\* the characters pressed while a filter pane is focused that reach its
\* Char(c) fall-through arm (none has an arm of its own above it)
FilterTextChars == {"N", "p"}

\* the characters pressed while Search is focused (every Char(c) is pushed)
SearchChars == {"P"}

\* facets the backend may return to load_filters: no usable environment
\* (without and with an application), or one environment and one application
\* next to the placeholders it drops
Facets ==
  { [ environments |-> <<S_ACTIVE_PROFILE_IS_UNDEFINED>>,
      applications |-> <<>>,
      severities   |-> <<>> ],
    [ environments |-> <<S_ACTIVE_PROFILE_IS_UNDEFINED>>,
      applications |-> <<S_api>>,
      severities   |-> <<>> ],
    [ environments |-> <<S_ACTIVE_PROFILE_IS_UNDEFINED, S_production>>,
      applications |-> <<S_APPLICATION_NAME_IS_UNDEFINED, S_api>>,
      severities   |-> <<>> ] }

\* page-size texts held by the limit filter of the stand-alone App
LimitTexts == { <<"0">>, <<"1">>, S_50, <<"x">> }

\* the limit filter of the stand-alone App: empty, or one committed text
LimitFields ==
  {new} \cup { select_value(set_items(new, <<t>>), t) : t \in LimitTexts }

\* the environment filter of the stand-alone App: empty, or production
ProfileFields ==
  {new, select_value(set_items(new, <<S_production>>), S_production)}

\* its application filter: "ALL" or "api" committed
AppFields ==
  { select_value(set_items(new, <<ALL, S_api>>), v) : v \in {ALL, S_api} }

\* its severity filter: "ALL" or "ERROR" committed
SeverityFields ==
  { select_value(set_items(new, <<ALL, S_ERROR>>), v) : v \in {ALL, S_ERROR} }

\* total hit counts the backend may report
Totals == {0} \cup { 50 * k + 1 : k \in 1..MaxHitBlocks }

\* LogResult values the backend may return (a LogEntry is its number)
Results ==
  { [logs |-> [i \in 1..n |-> i], total |-> t] : n \in 0..MaxLogs, t \in Totals }

\* ------------------------------------------------------------------------
\* State
\* ------------------------------------------------------------------------
VARIABLES
  ff,         \* a stand-alone FilterField driven through its public methods
  confirmed,  \* history: the item highlighted at ff's last confirm(), None
              \* again after set_items or select_value
  lastOp,     \* history: the last method called on ff
  app,        \* the App
  pc,         \* main(): "load_filters", "fetch_logs", "run" (the loop),
              \* "exit" (run returned an error), "panic" (unreachable!())
  inflight,   \* the opensearch::fetch_logs call fetch_page awaits, or None
  fetched,    \* history: the query of the last fetch that succeeded; kept
              \* only in behaviours that start with fetched.on
  ret         \* a stand-alone App called method by method: the method last
              \* called and what it returned, <<>> before the first call

vars == <<ff, confirmed, lastOp, app, pc, inflight, fetched, ret>>

ffvars == <<ff, confirmed, lastOp>>

appvars == <<app, pc, inflight>>

histvars == <<fetched, ret>>

Init ==
  /\ ff = new
  /\ confirmed = None
  /\ lastOp = "new"
  /\ app = App_new
  /\ pc = "load_filters"
  /\ inflight = None
  /\ fetched = [on |-> FALSE, query |-> None]
  /\ ret = <<>>

\* ------------------------------------------------------------------------
\* The stand-alone FilterField: one action per public method
\* ------------------------------------------------------------------------
CallSetItems(values) ==
  /\ ff' = set_items(ff, values)
  /\ confirmed' = None
  /\ lastOp' = "set_items"
  /\ UNCHANGED <<appvars, histvars>>

CallSelectValue(v) ==
  /\ ff' = select_value(ff, v)
  /\ confirmed' = None
  /\ lastOp' = "select_value"
  /\ UNCHANGED <<appvars, histvars>>

CallOpen ==
  /\ ff' = open(ff)
  /\ lastOp' = "open"
  /\ UNCHANGED <<confirmed, appvars, histvars>>

CallConfirm ==
  /\ ff' = confirm(ff)
  /\ confirmed' = IF ff.filtered_indices # <<>>
                  THEN Some(filtered_items(ff)[cursor(ff) + 1])
                  ELSE confirmed
  /\ lastOp' = "confirm"
  /\ UNCHANGED <<appvars, histvars>>

CallTypeChar(c) ==
  /\ Len(ff.filter_text) < MaxText
  /\ ff' = type_char(ff, c)
  /\ lastOp' = "type_char"
  /\ UNCHANGED <<confirmed, appvars, histvars>>

CallBackspace ==
  /\ ff' = backspace(ff)
  /\ lastOp' = "backspace"
  /\ UNCHANGED <<confirmed, appvars, histvars>>

CallNext ==
  /\ ff' = next(ff)
  /\ lastOp' = "next"
  /\ UNCHANGED <<confirmed, appvars, histvars>>

CallPrevious ==
  /\ ff' = previous(ff)
  /\ lastOp' = "previous"
  /\ UNCHANGED <<confirmed, appvars, histvars>>

FFNext ==
  \/ \E values \in ItemLists : CallSetItems(values)
  \/ \E v \in ItemValues \cup {<<"a">>} : CallSelectValue(v)
  \/ CallOpen
  \/ CallConfirm
  \/ \E c \in Alphabet : CallTypeChar(c)
  \/ CallBackspace
  \/ CallNext
  \/ CallPrevious

FFSpec == Init /\ [][FFNext]_vars

\* ------------------------------------------------------------------------
\* The stand-alone App: built with any focus, total and page size, then
\* called method by method
\* ------------------------------------------------------------------------
AppCallInit ==
  /\ ff = new
  /\ confirmed = None
  /\ lastOp = "new"
  /\ app \in { [App_new EXCEPT !.focused = p, !.total_hits = t,
                                !.limit_filter = f, !.profile_filter = e,
                                !.app_filter = a, !.severity_filter = v] :
                 p \in Pane, t \in 0..MaxTotalHits, f \in LimitFields,
                 e \in ProfileFields, a \in AppFields, v \in SeverityFields }
  /\ pc = "call"
  /\ inflight = None
  /\ fetched = [on |-> FALSE, query |-> None]
  /\ ret = <<>>

AppCallTotalPages ==
  /\ pc = "call"
  /\ ret' = <<"total_pages", total_pages(app)>>
  /\ UNCHANGED <<appvars, ffvars, fetched>>

AppCallActiveFilterMut ==
  /\ pc = "call"
  /\ ret' = <<"active_filter_mut", active_filter_mut(app)>>
  /\ UNCHANGED <<appvars, ffvars, fetched>>

\* fetch_page(page), up to the call it awaits
AppCallFetchPage(page) ==
  /\ pc = "call"
  /\ ret' = <<"fetch_page", fetch_page_call(app, page)>>
  /\ UNCHANGED <<appvars, ffvars, fetched>>

AppCallNext ==
  \/ AppCallTotalPages
  \/ AppCallActiveFilterMut
  \/ \E page \in 1..2 : AppCallFetchPage(page)

AppCallSpec == AppCallInit /\ [][AppCallNext]_vars

\* ------------------------------------------------------------------------
\* main(): start-up (main.rs 48-55)
\* ------------------------------------------------------------------------
\* what a key handler does when it ends without calling fetch_page
Handled(a) ==
  /\ app' = a
  /\ UNCHANGED <<pc, inflight, ffvars, histvars>>

\* what a key handler does when its last call is a.fetch_page(p).await
Fetching(a, p) ==
  /\ app' = fetch_page_begin(a, p)
  /\ inflight' = fetch_page_call(a, p)
  /\ UNCHANGED <<pc, ffvars, histvars>>

\* app.load_filters().await with the backend answering Ok(filters)
LoadFiltersOk(filters) ==
  /\ pc = "load_filters"
  /\ app' = load_filters_ok(app, filters)
  /\ pc' = "fetch_logs"
  /\ UNCHANGED <<inflight, ffvars, histvars>>

\* app.load_filters().await with the backend answering Err
LoadFiltersErr ==
  /\ pc = "load_filters"
  /\ app' = load_filters_err(app)
  /\ pc' = "fetch_logs"
  /\ UNCHANGED <<inflight, ffvars, histvars>>

\* app.fetch_logs().await before the loop, up to its await
InitialFetch ==
  /\ pc = "fetch_logs"
  /\ app' = fetch_page_begin(app, fetch_logs)
  /\ inflight' = fetch_page_call(app, fetch_logs)
  /\ pc' = "run"
  /\ UNCHANGED <<ffvars, histvars>>

\* ------------------------------------------------------------------------
\* fetch_page resumes: the backend answers the call in flight
\* ------------------------------------------------------------------------
FetchOk(result) ==
  /\ inflight # None
  /\ app' = fetch_page_ok(app, unwrap(inflight).page, result)
  /\ inflight' = None
  /\ fetched' = IF fetched.on
                THEN [fetched EXCEPT !.query = Some(query_of(unwrap(inflight)))]
                ELSE fetched
  /\ UNCHANGED <<pc, ffvars, ret>>

FetchErr ==
  /\ inflight # None
  /\ app' = fetch_page_err(app)
  /\ inflight' = None
  /\ UNCHANGED <<pc, ffvars, histvars>>

\* ------------------------------------------------------------------------
\* run(): one key event (main.rs 268-455); the loop reads no key while
\* fetch_page is suspended
\* ------------------------------------------------------------------------
\* mutant of ReadsKey: keys are read while fetch_page is suspended
ReadsKey_while_fetching(pane) ==
  /\ pc = "run"
  /\ app.focused = pane

ReadsKey(pane) ==
  /\ pc = "run"
  /\ inflight = None
  /\ app.focused = pane

\* Pane::Logs
KeyLogsHotkey(c) ==
  /\ ReadsKey("Logs")
  /\ Handled(hotkey_open(app, logs_hotkey_pane(c)))

KeyLogsRefresh ==
  /\ ReadsKey("Logs")
  /\ Fetching(app, app.page)

KeyLogsDown ==
  /\ ReadsKey("Logs")
  /\ Handled(scroll_down(app))

KeyLogsUp ==
  /\ ReadsKey("Logs")
  /\ Handled(scroll_up(app))

KeyLogsRight ==
  /\ ReadsKey("Logs")
  /\ IF next_page(app) # None
     THEN Fetching(app, unwrap(next_page(app)))
     ELSE Handled(app)

KeyLogsLeft ==
  /\ ReadsKey("Logs")
  /\ IF prev_page(app) # None
     THEN Fetching(app, unwrap(prev_page(app)))
     ELSE Handled(app)

\* mutant of KeyLogsEnter: the menu opens whether or not a record is shown
KeyLogsEnter_unguarded ==
  /\ ReadsKey("Logs")
  /\ Handled([app EXCEPT !.context_cursor = 0, !.focused = "LogContext"])

KeyLogsEnter ==
  /\ ReadsKey("Logs")
  /\ IF app.logs # <<>>
     THEN Handled([app EXCEPT !.context_cursor = 0, !.focused = "LogContext"])
     ELSE Handled(app)

KeyLogsSlash ==
  /\ ReadsKey("Logs")
  /\ Handled([app EXCEPT !.focused = "Search"])

\* Pane::LogContext
\* mutant of KeyContextDown: the cursor moves down without the min()
KeyContextDown_no_clamp ==
  /\ ReadsKey("LogContext")
  /\ Handled([app EXCEPT !.context_cursor = @ + 1])

KeyContextDown ==
  /\ ReadsKey("LogContext")
  /\ Handled([app EXCEPT !.context_cursor =
                Min(@ + 1, Len(CONTEXT_MENU_OPTIONS) - 1)])

KeyContextUp ==
  /\ ReadsKey("LogContext")
  /\ Handled([app EXCEPT !.context_cursor = saturating_sub1(@)])

\* Enter: the clipboard or the editor answers ok or not
KeyContextEnter(ok) ==
  /\ ReadsKey("LogContext")
  /\ IF app.log_index < Len(app.logs)
     THEN CASE app.context_cursor = 0 ->
                 Handled([app EXCEPT !.status = IF ok THEN StCopied ELSE StClipboardError,
                                     !.focused = "Logs"])
            [] app.context_cursor = 1 ->
                 IF ok
                 THEN Handled([app EXCEPT !.status = StEditor, !.focused = "Logs"])
                 ELSE /\ pc' = "exit"
                      /\ UNCHANGED <<app, inflight, ffvars, histvars>>
            [] OTHER -> Handled([app EXCEPT !.focused = "Logs"])
     ELSE Handled([app EXCEPT !.focused = "Logs"])

\* mutant of KeyContextEsc: leaving the menu puts the first record back on top
KeyContextEsc_resets_index ==
  /\ ReadsKey("LogContext")
  /\ Handled([app EXCEPT !.focused = "Logs", !.log_index = 0])

KeyContextEsc ==
  /\ ReadsKey("LogContext")
  /\ Handled([app EXCEPT !.focused = "Logs"])

\* Pane::Search
\* mutant of KeySearchChar: every character typed starts a fetch of page 1
KeySearchChar_fetches(c) ==
  /\ ReadsKey("Search")
  /\ total_typed(app) < MaxTyped
  /\ Fetching([app EXCEPT !.search_text = Append(@, c)], fetch_logs)

KeySearchChar(c) ==
  /\ ReadsKey("Search")
  /\ total_typed(app) < MaxTyped
  /\ Handled([app EXCEPT !.search_text = Append(@, c)])

KeySearchBackspace ==
  /\ ReadsKey("Search")
  /\ Handled([app EXCEPT !.search_text =
                IF @ = <<>> THEN <<>> ELSE SubSeq(@, 1, Len(@) - 1)])

KeySearchEnter ==
  /\ ReadsKey("Search")
  /\ Fetching([app EXCEPT !.status = StFetchingLogs], fetch_logs)

\* mutant of KeySearchEsc: Esc leaves the pane only once the text is empty
KeySearchEsc_when_empty ==
  /\ ReadsKey("Search")
  /\ app.search_text = <<>>
  /\ Handled([app EXCEPT !.focused = "Logs"])

KeySearchEsc ==
  /\ ReadsKey("Search")
  /\ Handled([app EXCEPT !.focused = "Logs"])

\* the filter panes
\* mutant of ReadsFilterKey: the filter-pane arm also takes the Search pane
ReadsFilterKey_or_search ==
  /\ pc = "run"
  /\ inflight = None
  /\ app.focused \in FilterPanes \cup {"Search"}

ReadsFilterKey ==
  /\ pc = "run"
  /\ inflight = None
  /\ app.focused \in FilterPanes

\* a handler arm that calls a method on app.active_filter_mut()
OnActiveFilter(a) ==
  IF active_filter_mut(app) = Unreachable
  THEN /\ pc' = "panic"
       /\ UNCHANGED <<app, inflight, ffvars, histvars>>
  ELSE Handled(a)

\* mutant of KeyFilterHotkey: the highlighted candidate is committed before
\* the other pane opens
KeyFilterHotkey_confirms(c) ==
  /\ ReadsFilterKey
  /\ Handled(hotkey_open([app EXCEPT ![active_filter_mut(app)] = confirm(@)],
                         filter_hotkey_pane(c)))

KeyFilterHotkey(c) ==
  /\ ReadsFilterKey
  /\ Handled(hotkey_open(app, filter_hotkey_pane(c)))

KeyFilterL ==
  /\ ReadsFilterKey
  /\ Handled([app EXCEPT !.focused = "Logs"])

KeyFilterSlash ==
  /\ ReadsFilterKey
  /\ Handled([app EXCEPT !.focused = "Search"])

KeyFilterChar(c) ==
  /\ ReadsFilterKey
  /\ total_typed(app) < MaxTyped
  /\ OnActiveFilter([app EXCEPT ![active_filter_mut(app)] = type_char(@, c)])

KeyFilterBackspace ==
  /\ ReadsFilterKey
  /\ OnActiveFilter([app EXCEPT ![active_filter_mut(app)] = backspace(@)])

KeyFilterDown ==
  /\ ReadsFilterKey
  /\ OnActiveFilter([app EXCEPT ![active_filter_mut(app)] = next(@)])

KeyFilterUp ==
  /\ ReadsFilterKey
  /\ OnActiveFilter([app EXCEPT ![active_filter_mut(app)] = previous(@)])

\* mutant of KeyFilterEnter: the search mode is fetched like the other panes
KeyFilterEnter_always_fetches ==
  /\ ReadsFilterKey
  /\ IF active_filter_mut(app) = Unreachable
     THEN /\ pc' = "panic"
          /\ UNCHANGED <<app, inflight, ffvars, histvars>>
     ELSE LET a == [app EXCEPT ![active_filter_mut(app)] = confirm(@)]
          IN  Fetching([a EXCEPT !.status = StFetchingLogs], fetch_logs)

\* mutant of KeyFilterEnter: the fetch is started without confirm()
KeyFilterEnter_without_confirm ==
  /\ ReadsFilterKey
  /\ IF active_filter_mut(app) = Unreachable
     THEN /\ pc' = "panic"
          /\ UNCHANGED <<app, inflight, ffvars, histvars>>
     ELSE IF app.focused = "SearchMode"
          THEN Handled([app EXCEPT !.focused = "Logs"])
          ELSE Fetching([app EXCEPT !.status = StFetchingLogs], fetch_logs)

KeyFilterEnter ==
  /\ ReadsFilterKey
  /\ IF active_filter_mut(app) = Unreachable
     THEN /\ pc' = "panic"
          /\ UNCHANGED <<app, inflight, ffvars, histvars>>
     ELSE LET pane == app.focused
              a    == [app EXCEPT ![active_filter_mut(app)] = confirm(@)]
          IN  IF pane = "SearchMode"
              THEN Handled([a EXCEPT !.focused = "Logs"])
              ELSE Fetching([a EXCEPT !.status = StFetchingLogs], fetch_logs)

\* mutant of KeyFilterEsc: the highlighted candidate is committed on the way out
KeyFilterEsc_confirms ==
  /\ ReadsFilterKey
  /\ OnActiveFilter([app EXCEPT ![active_filter_mut(app)] = confirm(@),
                                !.focused = "Logs"])

KeyFilterEsc ==
  /\ ReadsFilterKey
  /\ Handled([app EXCEPT !.focused = "Logs"])

Next ==
  \/ \E filters \in Facets : LoadFiltersOk(filters)
  \/ LoadFiltersErr
  \/ InitialFetch
  \/ \E result \in Results : FetchOk(result)
  \/ FetchErr
  \/ \E c \in LogsHotkeys : KeyLogsHotkey(c)
  \/ KeyLogsRefresh
  \/ KeyLogsDown
  \/ KeyLogsUp
  \/ KeyLogsRight
  \/ KeyLogsLeft
  \/ KeyLogsEnter
  \/ KeyLogsSlash
  \/ KeyContextDown
  \/ KeyContextUp
  \/ \E ok \in BOOLEAN : KeyContextEnter(ok)
  \/ KeyContextEsc
  \/ \E c \in SearchChars : KeySearchChar(c)
  \/ KeySearchBackspace
  \/ KeySearchEnter
  \/ KeySearchEsc
  \/ \E c \in FilterHotkeys : KeyFilterHotkey(c)
  \/ KeyFilterL
  \/ KeyFilterSlash
  \/ \E c \in FilterTextChars : KeyFilterChar(c)
  \/ KeyFilterBackspace
  \/ KeyFilterDown
  \/ KeyFilterUp
  \/ KeyFilterEnter
  \/ KeyFilterEsc

Spec == Init /\ [][Next]_vars

\* the same program, with the query of the last successful fetch recorded
HistInit ==
  /\ ff = new
  /\ confirmed = None
  /\ lastOp = "new"
  /\ app = App_new
  /\ pc = "load_filters"
  /\ inflight = None
  /\ fetched = [on |-> TRUE, query |-> None]
  /\ ret = <<>>

HistSpec == HistInit /\ [][Next]_vars

\* ------------------------------------------------------------------------
\* Properties of the stand-alone FilterField (checked under FFSpec)
\* ------------------------------------------------------------------------
\* C1: after any sequence of FilterField calls, cursor() is 0 when the
\* filtered subset is empty and otherwise 0 <= cursor() <= len(filtered_items()) - 1.
CursorInBounds ==
  IF filtered_items(ff) = <<>>
  THEN cursor(ff) = 0
  ELSE 0 <= cursor(ff) /\ cursor(ff) <= Len(filtered_items(ff)) - 1

\* next() has stopped the cursor on the last of several candidates
CursorInBoundsWitness ==
  /\ lastOp = "next"
  /\ Len(filtered_items(ff)) >= 2
  /\ cursor(ff) = Len(filtered_items(ff)) - 1

\* two characters are the same letter in either case
same_ignoring_case(x, y) ==
  \/ x = y
  \/ \E i \in 1..Len(UpperAlpha) : {x, y} = {UpperAlpha[i], LowerAlpha[i]}

\* q occurs in value at some offset, comparing character by character
contains_ignoring_case(value, q) ==
  \E off \in 0..(Len(value) - Len(q)) :
    \A k \in 1..Len(q) : same_ignoring_case(value[off + k], q[k])

\* the subsequence of items that contain q, in the order of items
RECURSIVE matching_subsequence(_, _)
matching_subsequence(items, q) ==
  IF items = <<>> THEN <<>>
  ELSE IF contains_ignoring_case(Head(items), q)
       THEN <<Head(items)>> \o matching_subsequence(Tail(items), q)
       ELSE matching_subsequence(Tail(items), q)

\* C2: after any sequence of FilterField calls, filtered_items() is exactly
\* the subsequence of items containing filter_text case-insensitively, in the
\* order of items; with an empty filter_text it is items.
FilteredIsMatchingSubsequence ==
  /\ filtered_items(ff) = matching_subsequence(ff.items, filter_text(ff))
  /\ filter_text(ff) = <<>> => filtered_items(ff) = ff.items

\* typing "a" has kept "Ab" (its capital A matches) and dropped "b"
FilteredIsMatchingSubsequenceWitness ==
  /\ lastOp = "type_char"
  /\ ff.items = << <<"b">>, <<"A","b">> >>
  /\ filter_text(ff) = <<"a">>
  /\ filtered_items(ff) = << <<"A","b">> >>

\* C3: after confirm() on a non-empty filtered subset, selected_value() is the
\* item that was highlighted at that confirm, and stays so across open(),
\* type_char, backspace, next and previous until the next confirm().
ConfirmedValueKept ==
  confirmed # None => selected_value(ff) = confirmed

\* a value other than the first was confirmed while a filter hid the first
\* item, and the field has been reopened since
ConfirmedValueKeptWitness ==
  /\ confirmed = Some(<<"b","a">>)
  /\ ff.items = << <<"b">>, <<"b","a">> >>
  /\ lastOp = "open"
  /\ selected_value(ff) = Some(<<"b","a">>)

\* C4: type_char, backspace, next, previous and open leave selected_index and
\* selected_value() as they were.
TypingKeepsSelection ==
  [][lastOp' \in {"type_char", "backspace", "next", "previous", "open"}
       => /\ ff'.selected_index = ff.selected_index
          /\ selected_value(ff') = selected_value(ff)]_vars

\* a character was typed that filters the committed second item out
TypingKeepsSelectionWitness ==
  /\ lastOp = "type_char"
  /\ ff.selected_index = 1
  /\ ff.filtered_indices = <<0>>

\* C25: open() clears filter_text, makes the filtered subset the full item
\* list and puts cursor on the committed selection (0 if there is none); for
\* a non-empty field the highlighted item is then selected_value().
OpenHighlightsSelection ==
  lastOp = "open"
    => /\ filter_text(ff) = <<>>
       /\ filtered_items(ff) = ff.items
       /\ ff.filtered_indices = [k \in 1..Len(ff.items) |-> k - 1]
       /\ cursor(ff) = IF ff.items = <<>> THEN 0 ELSE ff.selected_index
       /\ ff.items # <<>>
            => Some(filtered_items(ff)[cursor(ff) + 1]) = selected_value(ff)

\* open() has put the cursor on the committed second item
OpenHighlightsSelectionWitness ==
  /\ lastOp = "open"
  /\ Len(ff.items) = 2
  /\ ff.selected_index = 1
  /\ cursor(ff) = 1

\* C26: after type_char(c) or backspace() the cursor is min(old cursor,
\* len(new filtered subset) - 1) when the new subset is non-empty and 0 when
\* it is empty.
EditClampsCursor ==
  [][lastOp' \in {"type_char", "backspace"}
       => cursor(ff') = IF filtered_items(ff') = <<>> THEN 0
                        ELSE Min(cursor(ff), Len(filtered_items(ff')) - 1)]_vars

\* a character was typed that both items match: the cursor stayed on the second
EditClampsCursorWitness ==
  /\ lastOp = "type_char"
  /\ filter_text(ff) # <<>>
  /\ Len(filtered_items(ff)) = 2
  /\ cursor(ff) = 1

\* C27: next() moves cursor up by one unless it is on the last match, where it
\* stays; previous() moves it down by one unless it is 0, where it stays;
\* neither wraps, neither changes anything but cursor. With no match both
\* leave cursor at 0.
NextPreviousSaturate ==
  [][/\ lastOp' = "next"
          => ff' = [ff EXCEPT !.cursor =
                      IF ff.filtered_indices = <<>> THEN 0
                      ELSE IF cursor(ff) = Len(ff.filtered_indices) - 1
                           THEN cursor(ff)
                           ELSE cursor(ff) + 1]
     /\ lastOp' = "previous"
          => ff' = [ff EXCEPT !.cursor =
                      IF cursor(ff) = 0 THEN 0 ELSE cursor(ff) - 1]]_vars

\* previous() was called with the cursor on the first of two matches
NextPreviousSaturateWitness ==
  /\ lastOp = "previous"
  /\ cursor(ff) = 0
  /\ Len(ff.filtered_indices) = 2

\* C28: confirm() on a field whose filtered subset is empty changes nothing.
ConfirmOnEmptySubsetIsNoOp ==
  [][(lastOp' = "confirm" /\ filtered_items(ff) = <<>>) => ff' = ff]_vars

\* confirm() was called with no match for the typed text; the second item is
\* still committed
ConfirmOnEmptySubsetIsNoOpWitness ==
  /\ lastOp = "confirm"
  /\ filtered_items(ff) = <<>>
  /\ filter_text(ff) # <<>>
  /\ ff.selected_index = 1

\* C29: set_items(values) replaces the candidate list, commits its first item
\* (selected_value() is none exactly when values is empty), keeps filter_text
\* and recomputes the filtered subset against it, the cursor clamped.
SetItemsKeepsFilterText ==
  [][\A values \in ItemLists :
       (lastOp' = "set_items" /\ ff'.items = values /\ CallSetItems(values))
         => /\ ff'.items = values
            /\ ff'.selected_index = 0
            /\ selected_value(ff') = None <=> values = <<>>
            /\ values # <<>> => selected_value(ff') = Some(values[1])
            /\ filter_text(ff') = filter_text(ff)
            /\ filtered_items(ff') = matching_subsequence(values, filter_text(ff))
            /\ cursor(ff') = IF filtered_items(ff') = <<>> THEN 0
                             ELSE Min(cursor(ff), Len(filtered_items(ff')) - 1)]_vars

\* new items were set under a typed text that only one of them matches
SetItemsKeepsFilterTextWitness ==
  /\ lastOp = "set_items"
  /\ filter_text(ff) # <<>>
  /\ Len(ff.items) = 2
  /\ Len(filtered_items(ff)) = 1

\* C30: select_value(v) commits v when v is in items and otherwise changes
\* nothing; either way filter_text, the filtered subset and cursor stay.
SelectValueSilentMiss ==
  [][\A v \in ItemValues \cup {<<"a">>} :
       (lastOp' = "select_value" /\ CallSelectValue(v))
         => /\ IF \E i \in 1..Len(ff.items) : ff.items[i] = v
               THEN selected_value(ff') = Some(v)
               ELSE ff' = ff
            /\ ff'.items = ff.items
            /\ filter_text(ff') = filter_text(ff)
            /\ ff'.filtered_indices = ff.filtered_indices
            /\ cursor(ff') = cursor(ff)]_vars

\* select_value has committed the second item while the cursor is on the first
SelectValueSilentMissWitness ==
  /\ lastOp = "select_value"
  /\ ff.selected_index = 1
  /\ cursor(ff) = 0
  /\ Len(ff.filtered_indices) = 2

\* ------------------------------------------------------------------------
\* Properties of the App (checked under Spec)
\* ------------------------------------------------------------------------
\* C5: in every reachable state log_index < len(logs) when logs is non-empty
\* and log_index = 0 when logs is empty.
LogIndexInBounds ==
  IF app.logs = <<>>
  THEN app.log_index = 0
  ELSE app.log_index < Len(app.logs)

\* scroll_down has reached the last record of a page of several
LogIndexInBoundsWitness ==
  /\ Len(app.logs) >= 2
  /\ app.log_index = Len(app.logs) - 1

\* C6: page >= 1 in every reachable state, and fetch_page is never called
\* with page 0.
PageAtLeastOne ==
  /\ app.page >= 1
  /\ inflight # None => unwrap(inflight).page >= 1

\* on page 2, a fetch of page 1 is in flight (prev_page or a commit)
PageAtLeastOneWitness ==
  /\ app.page = 2
  /\ inflight # None
  /\ unwrap(inflight).page = 1

\* C7: immediately after any successful fetch, page <= total_pages().
PageWithinTotalPagesAfterFetch ==
  [][(\E result \in Results : FetchOk(result))
       => app'.page <= total_pages(app')]_vars

\* a response has been consumed with the error status
FetchFailedStep ==
  /\ inflight # None
  /\ inflight' = None
  /\ app'.status = StError

\* C8: a fetch that fails changes no App field but status.
FailedFetchChangesOnlyStatus ==
  [][FetchFailedStep => app' = [app EXCEPT !.status = app'.status]]_vars

\* a fetch has failed on page 2 of a loaded result
FailedFetchChangesOnlyStatusWitness ==
  /\ app.status = StError
  /\ inflight = None
  /\ app.page = 2
  /\ app.logs # <<>>
  /\ app.total_hits = 51

\* C9: a successful fetch of page p replaces logs with the returned records,
\* sets total_hits to the returned total and page to p, resets log_index to 0
\* and sets focused to Logs.
SuccessfulFetchReplacesPage ==
  [][\A result \in Results :
       FetchOk(result)
         => /\ app'.logs = result.logs
            /\ app'.total_hits = result.total
            /\ app'.page = unwrap(inflight).page
            /\ app'.log_index = 0
            /\ app'.focused = "Logs"]_vars

\* page 2 has been loaded with one record after a search text was entered
SuccessfulFetchReplacesPageWitness ==
  /\ app.status = StLoaded(1)
  /\ app.logs = <<1>>
  /\ app.page = 2
  /\ app.search_text # <<>>
  /\ app.focused = "Logs"
  /\ inflight = None

\* a step of a handler that calls fetch_page
CallsFetchPage ==
  \/ InitialFetch
  \/ KeyLogsRefresh
  \/ KeySearchEnter
  \/ KeyLogsRight /\ next_page(app) # None
  \/ KeyLogsLeft /\ prev_page(app) # None
  \/ KeyFilterEnter /\ app.focused # "SearchMode"

\* C10: with no environment committed, fetch_page makes no backend call, sets
\* status to a message and leaves logs, total_hits, page, log_index and
\* focused unchanged.
NoEnvironmentNoBackendCall ==
  [][(selected_env(app) = None /\ CallsFetchPage)
       => /\ inflight' = None
          /\ app'.status = StNoEnvironment
          /\ app' = [app EXCEPT !.status = app'.status,
                                !.profile_filter = app'.profile_filter,
                                !.app_filter = app'.app_filter,
                                !.severity_filter = app'.severity_filter,
                                !.time_filter = app'.time_filter,
                                !.limit_filter = app'.limit_filter]]_vars

\* Enter on the environment pane, which has no candidates, was refused
NoEnvironmentNoBackendCallWitness ==
  /\ app.profile_filter.items = <<>>
  /\ app.status = StNoEnvironment
  /\ app.focused = "Profile"
  /\ inflight = None
  /\ pc = "run"

\* C12: next_page on the last page (page = total_pages()) and prev_page on
\* page 1 issue no fetch and change no state.
PageBoundaryNoOp ==
  [][(\/ KeyLogsRight /\ app.page = total_pages(app)
      \/ KeyLogsLeft /\ app.page = 1)
       => UNCHANGED <<app, inflight, pc>>]_vars

\* the Logs pane shows the last of two pages and reads the next key
PageBoundaryNoOpWitness ==
  /\ ReadsKey("Logs")
  /\ app.page = 2
  /\ total_pages(app) = 2
  /\ app.logs # <<>>

\* C13: the request built by fetch_page(page) carries size = page_size and
\* from = (page - 1) * page_size, page_size being the page size committed when
\* the call is made; page 2 at page size 50 gives from 50, size 50.
RequestCarriesOffset ==
  inflight # None
    => LET call == unwrap(inflight)
           body == search_body(call)
           size == selected_limit(app)
       IN  /\ body.size = size
           /\ body.from = (call.page - 1) * size
           /\ (call.page = 2 /\ selected_value(app.limit_filter) = Some(S_50))
                => (body.from = 50 /\ body.size = 50)

\* the request for page 2 at page size 50 is in flight
RequestCarriesOffsetWitness ==
  /\ inflight # None
  /\ unwrap(inflight).page = 2
  /\ selected_value(app.limit_filter) = Some(S_50)
  /\ search_body(unwrap(inflight)).from = 50

\* C14: whenever a committed filter value or search_text differs from the one
\* used by the last successful fetch, the next backend request issued, by any
\* trigger, is for page 1.
ChangedQueryFetchesPageOne ==
  [][(/\ fetched.query # None
      /\ inflight = None
      /\ inflight' # None
      /\ query_of(unwrap(inflight')) # unwrap(fetched.query))
       => unwrap(inflight').page = 1]_vars

\* the key Char(c) is read while a filter pane is focused
FilterPaneKey(c) ==
  \/ c \in FilterHotkeys /\ KeyFilterHotkey(c)
  \/ c \in FilterTextChars /\ KeyFilterChar(c)

\* no filter_text of a holds the hotkey of a filter dimension
NoHotkeyInFilterText(a) ==
  \A p \in FilterPanes :
    \A i \in 1..Len(a[pane_filter(p)].filter_text) :
      a[pane_filter(p)].filter_text[i] \notin LogsHotkeys

\* C15: while a filter pane is focused, the hotkey of any filter dimension
\* (P, A, S, T, N, M) moves the focus to that dimension and calls its open();
\* no hotkey character is ever appended to a filter_text.
HotkeyWinsInFilterPanes ==
  [][\A c \in LogsHotkeys :
       FilterPaneKey(c)
         => /\ app'.focused = logs_hotkey_pane(c)
            /\ app'[pane_filter(logs_hotkey_pane(c))]
                 = open(app[pane_filter(logs_hotkey_pane(c))])
            /\ NoHotkeyInFilterText(app')]_vars

\* Enter is read while a query-affecting filter pane is focused
EnterOnQueryFilter ==
  /\ KeyFilterEnter
  /\ app.focused # "SearchMode"

\* the fetch that Enter on a filter pane started comes back: no other handler
\* calls fetch_page while a filter pane is focused
FilterFetchReturns ==
  /\ inflight # None
  /\ inflight' = None
  /\ app.focused \in FilterPanes

SearchModeEnterCommitsLocally ==
  [][(KeyFilterEnter /\ app.focused = "SearchMode")
       => LET f == app.search_mode_filter
          IN  /\ filtered_items(f) # <<>>
                   => selected_value(app'.search_mode_filter)
                        = Some(filtered_items(f)[cursor(f) + 1])
              /\ app'.focused = "Logs"
              /\ inflight' = None
              /\ app'.logs = app.logs
              /\ app'.total_hits = app.total_hits
              /\ app'.page = app.page
              /\ app'.log_index = app.log_index]_vars

\* "Exact" was committed while page 2 is shown; nothing is being fetched
SearchModeEnterCommitsLocallyWitness ==
  /\ selected_value(app.search_mode_filter) = Some(S_Exact)
  /\ app.focused = "Logs"
  /\ app.page = 2
  /\ app.status = StLoaded(Len(app.logs))
  /\ inflight = None

\* C18 (as stated): Esc on a filter pane returns focus to Logs without
\* changing the field's committed selection and without a fetch, and the
\* field's filter_text is empty afterwards (filtered_items() is all items).
EscDiscardsTyping ==
  [][KeyFilterEsc
       => LET f == pane_filter(app.focused)
          IN  /\ app'.focused = "Logs"
              /\ selected_value(app'[f]) = selected_value(app[f])
              /\ inflight' = None
              /\ filter_text(app'[f]) = <<>>
              /\ filtered_items(app'[f]) = app'[f].items]_vars

\* C18 (amended): Esc on a filter pane sets focused to Logs and changes nothing
\* else, so neither the committed selection nor filter_text, and starts no
\* fetch; the typed text is cleared by open() when a key next moves the focus
\* to that pane.
EscOnlyMovesFocus ==
  [][/\ KeyFilterEsc
          => /\ app' = [app EXCEPT !.focused = "Logs"]
             /\ inflight' = None
     /\ (app'.focused \in FilterPanes /\ app'.focused # app.focused)
          => LET f == pane_filter(app'.focused)
             IN  /\ filter_text(app'[f]) = <<>>
                 /\ filtered_items(app'[f]) = app'[f].items
                 /\ selected_value(app'[f]) = selected_value(app[f])]_vars

\* the application pane was left with "p" typed and "ALL" still committed
EscOnlyMovesFocusWitness ==
  /\ app.focused = "Logs"
  /\ filter_text(app.app_filter) = <<"p">>
  /\ filtered_items(app.app_filter) = <<S_api>>
  /\ selected_value(app.app_filter) = Some(ALL)
  /\ inflight = None

\* C20: at most one fetch is in flight, and between the start of a fetch and
\* its response no key is handled: the only step is the response, which leaves
\* every FilterField and search_text alone and starts no other fetch.
NoKeyHandledMidFetch ==
  [][inflight # None
       => /\ (\E result \in Results : FetchOk(result)) \/ FetchErr
          /\ inflight' = None
          /\ \A p \in FilterPanes : app'[pane_filter(p)] = app[pane_filter(p)]
          /\ app'.search_text = app.search_text
          /\ app'.context_cursor = app.context_cursor]_vars

\* a fetch started from Search is in flight with the typed text
NoKeyHandledMidFetchWitness ==
  /\ inflight # None
  /\ app.focused = "Search"
  /\ unwrap(inflight).search = Some(app.search_text)
  /\ pc = "run"

\* a backend search request goes out
RequestIssued ==
  /\ inflight = None
  /\ inflight' # None

\* the step handles a filter commit, a page navigation, a refresh or a
\* search submit
FetchingKeyEvent ==
  \/ KeyFilterEnter
  \/ KeyLogsRight
  \/ KeyLogsLeft
  \/ KeyLogsRefresh
  \/ KeySearchEnter

\* C21 (as stated): every backend search request is the direct result of a key
\* event that is a filter commit, a page navigation, a refresh or a search
\* submit.
RequestsOnlyFromKeyEvents ==
  [][RequestIssued => FetchingKeyEvent]_vars

\* C21 (amended): every backend search request is either the one fetch of
\* page 1 that main() issues at start-up, before the loop reads a key, or the
\* direct result of a key event that is a filter commit, a page navigation, a
\* refresh or a search submit.
RequestsOnlyFromStartupOrKeyEvents ==
  [][RequestIssued
       => \/ InitialFetch /\ unwrap(inflight').page = 1
          \/ FetchingKeyEvent]_vars

\* the start-up fetch is in flight: filters loaded, nothing fetched or typed yet
RequestsOnlyFromStartupOrKeyEventsWitness ==
  /\ inflight # None
  /\ unwrap(inflight).page = 1
  /\ app.status = StFetchingPage(1)
  /\ app.focused = "Logs"
  /\ app.logs = <<>>
  /\ app.total_hits = 0
  /\ total_typed(app) = 0

\* C23: Enter on Logs moves the focus to LogContext and resets context_cursor
\* to 0 only if logs is non-empty; with empty logs it changes nothing. No other
\* step opens LogContext.
LogsEnterOpensContextMenu ==
  [][/\ KeyLogsEnter
          => /\ IF app.logs # <<>>
                THEN app' = [app EXCEPT !.context_cursor = 0,
                                        !.focused = "LogContext"]
                ELSE app' = app
             /\ UNCHANGED <<inflight, pc>>
     /\ (app'.focused = "LogContext" /\ app.focused # "LogContext")
          => /\ app.focused = "Logs"
             /\ app.logs # <<>>
             /\ app'.context_cursor = 0]_vars

\* the menu is open on the second record of a page, its first action highlighted
LogsEnterOpensContextMenuWitness ==
  /\ app.focused = "LogContext"
  /\ app.context_cursor = 0
  /\ Len(app.logs) = 2
  /\ app.log_index = 1

ContextMenuHasRecordAndAction ==
  app.focused = "LogContext"
    => /\ app.logs # <<>>
       /\ app.log_index < Len(app.logs)
       /\ app.context_cursor \in 0..(Len(CONTEXT_MENU_OPTIONS) - 1)
       /\ app.context_cursor \in {0, 1}

\* the menu is open on the second record with its second action highlighted
ContextMenuHasRecordAndActionWitness ==
  /\ app.focused = "LogContext"
  /\ app.context_cursor = 1
  /\ Len(app.logs) = 2
  /\ app.log_index = 1
  /\ pc = "run"

\* the key events whose handler calls app.active_filter_mut()
CallsActiveFilterMut ==
  \/ \E c \in FilterTextChars : KeyFilterChar(c)
  \/ KeyFilterBackspace
  \/ KeyFilterDown
  \/ KeyFilterUp
  \/ KeyFilterEnter

\* C32: for every sequence of key events and fetch outcomes, the event loop
\* calls active_filter_mut only while focused is a filter-dimension pane, the
\* call borrows one of the six FilterFields, and the unreachable!() branch for
\* Logs, Search and LogContext is never taken.
ActiveFilterMutOnlyInFilterPanes ==
  [][/\ pc' # "panic"
     /\ CallsActiveFilterMut
          => /\ app.focused \notin {"Logs", "Search", "LogContext"}
             /\ active_filter_mut(app) \in
                  {"profile_filter", "app_filter", "severity_filter",
                   "time_filter", "limit_filter", "search_mode_filter"}
             /\ pane_filter(app.focused) = active_filter_mut(app)]_vars

\* type_char was called on the severity pane's field through active_filter_mut
ActiveFilterMutOnlyInFilterPanesWitness ==
  /\ app.focused = "Severity"
  /\ app.severity_filter.filter_text # <<>>
  /\ pc = "run"

\* an Esc key event in LogContext, Search or a filter pane
EscKey ==
  \/ KeyContextEsc
  \/ KeySearchEsc
  \/ KeyFilterEsc

\* C33: from every pane other than Logs (each filter pane, Search and
\* LogContext) a single Esc key event sets focused to Logs, changes nothing
\* else and issues no fetch; and whenever the loop is waiting for a key with
\* another pane focused that Esc step can be taken, so no pane traps the focus.
EscAlwaysReturnsToLogs ==
  /\ [](( /\ pc = "run"
          /\ inflight = None
          /\ app.focused # "Logs")
          => ENABLED (EscKey /\ app'.focused = "Logs" /\ inflight' = None))
  /\ [][EscKey
          => /\ app.focused # "Logs"
             /\ app' = [app EXCEPT !.focused = "Logs"]
             /\ inflight' = None
             /\ pc' = "run"]_vars

\* back on Logs with the typed search text kept and no fetch ever answered
EscAlwaysReturnsToLogsWitness ==
  /\ app.focused = "Logs"
  /\ app.search_text # <<>>
  /\ app.status = StError
  /\ app.logs = <<>>
  /\ app.total_hits = 0
  /\ inflight = None

\* C34: when Enter in a query-affecting filter pane commits a value and the
\* fetch that follows fails, or is not sent because no environment is
\* committed, the commit is kept and focus stays on that pane: selected_value()
\* is the candidate that was highlighted (the failed request asked for it),
\* while logs, total_hits, page and log_index are what they were before Enter.
CommitSurvivesFailedFetch ==
  [][/\ EnterOnQueryFilter
          => LET f == app[pane_filter(app.focused)]
             IN  /\ filtered_items(f) # <<>>
                      => selected_value(app'[pane_filter(app.focused)])
                           = Some(filtered_items(f)[cursor(f) + 1])
                 /\ app'.logs = app.logs
                 /\ app'.total_hits = app.total_hits
                 /\ app'.page = app.page
                 /\ app'.log_index = app.log_index
                 /\ app'.focused = app.focused
                 /\ IF selected_env(app') = None
                    THEN inflight' = None /\ app'.status = StNoEnvironment
                    ELSE inflight' = fetch_page_call(app', 1)
     /\ (FetchErr /\ app.focused \in FilterPanes)
          => /\ inflight = fetch_page_call(app, 1)
             /\ app'.focused = app.focused
             /\ \A p \in FilterPanes :
                  app'[pane_filter(p)] = app[pane_filter(p)]
             /\ app'.logs = app.logs
             /\ app'.total_hits = app.total_hits
             /\ app'.page = app.page
             /\ app'.log_index = app.log_index]_vars

\* with no environment to query, Enter committed "api" on the application
\* pane; fetch_page returned early and the pane is still focused
CommitSurvivesFailedFetchWitness ==
  /\ app.focused = "Application"
  /\ selected_value(app.app_filter) = Some(S_api)
  /\ selected_env(app) = None
  /\ app.status = StNoEnvironment
  /\ inflight = None
  /\ pc = "run"

\* a key event that takes the focus off a filter pane, Enter aside: a hotkey
\* of a dimension, 'L', '/' or Esc
LeavesFilterPane ==
  \/ \E c \in FilterHotkeys : KeyFilterHotkey(c)
  \/ KeyFilterL
  \/ KeyFilterSlash
  \/ KeyFilterEsc

\* C35: leaving a filter pane by a key other than Enter never commits the
\* highlighted candidate: such a step changes no field's items or
\* selected_index, and the selected_value() of a FilterField changes only in
\* an Enter step on its own pane (confirm) or in load_filters (set_items,
\* select_value).
OnlyEnterCommits ==
  [][/\ (app.focused \in FilterPanes /\ LeavesFilterPane)
          => \A p \in FilterPanes :
               /\ app'[pane_filter(p)].selected_index = app[pane_filter(p)].selected_index
               /\ app'[pane_filter(p)].items = app[pane_filter(p)].items
     /\ \A p \in FilterPanes :
          ( /\ app'[pane_filter(p)] # app[pane_filter(p)]
            /\ selected_value(app'[pane_filter(p)]) # selected_value(app[pane_filter(p)]) )
            => \/ pc = "load_filters"
               \/ app.focused = p /\ KeyFilterEnter]_vars

\* the application pane was left for Logs with "api" highlighted and "ALL"
\* still committed
OnlyEnterCommitsWitness ==
  /\ app.focused = "Logs"
  /\ cursor(app.app_filter) = 1
  /\ selected_value(app.app_filter) = Some(ALL)
  /\ filtered_items(app.app_filter) = <<ALL, S_api>>

\* ------------------------------------------------------------------------
\* Properties of the stand-alone App (checked under AppCallSpec)
\* ------------------------------------------------------------------------
\* the least n >= 1 with n * size >= hits, for size >= 1
pages_needed(hits, size) ==
  CHOOSE n \in 1..(hits + 1) :
    /\ n * size >= hits
    /\ n = 1 \/ (n - 1) * size < hits

\* C11: total_pages() is ceil(total_hits / page_size) with a minimum of 1, and
\* 1 when page_size is 0; 101 hits with page size 50 give 3, no hits give 1.
TotalPagesIsCeiling ==
  (ret # <<>> /\ ret[1] = "total_pages")
    => LET size == selected_limit(app)
       IN  /\ size = 0 => ret[2] = 1
           /\ size > 0 => ret[2] = pages_needed(app.total_hits, size)
           /\ app.total_hits = 0 => ret[2] = 1
           /\ (app.total_hits = 101 /\ app.limit_filter.items = <<S_50>>)
                => ret[2] = 3

\* total_pages() has answered 3 for 101 hits at page size 50
TotalPagesIsCeilingWitness ==
  /\ ret = <<"total_pages", 3>>
  /\ app.total_hits = 101
  /\ selected_value(app.limit_filter) = Some(S_50)

\* C19: active_filter_mut called while Logs, Search or LogContext is focused
\* fails with the fatal error and returns no field; called while a filter pane
\* is focused it returns that pane's FilterField.
ActiveFilterMutFailsFast ==
  (ret # <<>> /\ ret[1] = "active_filter_mut")
    => IF app.focused \in {"Logs", "Search", "LogContext"}
       THEN ret[2] = Unreachable
       ELSE <<app.focused, ret[2]>> \in
              { <<"Profile", "profile_filter">>,
                <<"Application", "app_filter">>,
                <<"Severity", "severity_filter">>,
                <<"TimeRange", "time_filter">>,
                <<"Limit", "limit_filter">>,
                <<"SearchMode", "search_mode_filter">> }

\* active_filter_mut was called with Search focused and hit unreachable!()
ActiveFilterMutFailsFastWitness ==
  /\ ret = <<"active_filter_mut", Unreachable>>
  /\ app.focused = "Search"

\* the clauses of a search body that match on field
clauses_for(body, field) ==
  SelectSeq(body.must, LAMBDA c : c[1] = "match" /\ c[2] = field)

\* the clauses a committed value v of field must give
clause_of(field, v) ==
  IF v = Some(ALL) THEN <<>> ELSE << <<"match", field, unwrap(v)>> >>

\* C22: with "ALL" committed for application (severity) the request built by
\* fetch_page has no application (severity) clause; with any other value it
\* has exactly one clause for that field, with that value.
AllSentinelAddsNoClause ==
  (ret # <<>> /\ ret[1] = "fetch_page" /\ ret[2] # None)
    => LET body == search_body(unwrap(ret[2]))
       IN  /\ clauses_for(body, "application")
                = clause_of("application", selected_value(app.app_filter))
           /\ clauses_for(body, "severity")
                = clause_of("severity", selected_value(app.severity_filter))

\* a request was built with "ALL" applications and severity "ERROR"
AllSentinelAddsNoClauseWitness ==
  /\ ret # <<>>
  /\ ret[1] = "fetch_page"
  /\ ret[2] # None
  /\ selected_value(app.app_filter) = Some(ALL)
  /\ selected_value(app.severity_filter) = Some(S_ERROR)

====
